---- MODULE Spec2Model ----
(***************************************************************************)
(* A model of src/index.mjs: the template command builder $, the shell     *)
(* resolution done at module load, the asynchronous process runner and cd. *)
(*                                                                         *)
(* Strings are sequences of one-character strings, so that concatenation   *)
(* is \o and the regular expressions of the source can be computed.  A     *)
(* fixed text whose inside nothing inspects (the strict-mode prefix, a     *)
(* warning) is a one-element sequence holding the whole text.              *)
(*                                                                         *)
(* parentOut and parentErr hold what the handlers write to the parent's    *)
(* streams: the mirrored chunks, the warnings of the load and the lines    *)
(* cd prints before it exits.  The echo of a command under $.verbose       *)
(* (console.log of the colorized command, lines 51 and 98) is written and  *)
(* never read back, and is left out of the state.                          *)
(***************************************************************************)
EXTENDS Integers, Sequences, FiniteSets, TLC

VARIABLES
    found,      \* the executables the host's PATH search finds
    shell,      \* $.shell
    quote,      \* $.quote: which function it is bound to
    prefix,     \* $.prefix
    verbose,    \* $.verbose
    cwd,        \* $.cwd
    alive,      \* the node process has not called process.exit
    exitStatus, \* the status given to process.exit
    parentOut,  \* what was written to the parent's stdout
    parentErr,  \* what was written to the parent's stderr
    inv,        \* per call of $: its closure (buffers) and its promise
    child       \* per call of exec: the child process as the host sees it

vars == <<found, shell, quote, prefix, verbose, cwd, alive, exitStatus,
          parentOut, parentErr, inv, child>>

settings == <<shell, quote, prefix, verbose, cwd>>

----------------------------------------------------------------------------
(* Bounds of the model *)

MaxInv == 2        \* calls of $ in one run
MaxChunks == 2     \* data events delivered in one run, all children together
MaxStr == 2        \* length of the strings handed to the quoting function

----------------------------------------------------------------------------
(* JavaScript values *)

UNDEFINED == "undefined"
NULL == "null"

\* The code a child killed by a signal reports is null; it is kept apart
\* from every integer code by a value no process can exit with.
NullCode == -1

ExitCodes == {0, 1, NullCode}

Shells == <<"bash", "pwsh", "powershell">>

Executables == {"bash", "pwsh", "powershell"}

PathOf(cmd) ==
    CASE cmd = "bash" -> "/usr/bin/bash"
      [] cmd = "pwsh" -> "/usr/bin/pwsh"
      [] cmd = "powershell" -> "/usr/bin/powershell"

\* The directories of the host, and node's own working directory, which
\* nothing in the module changes (there is no process.chdir).
FileSystem == {"/a", "/b", "/c"}

ProcessCwd == "/"

\* what cd is called with: absolute paths and the relative path "c"
Paths == {"/a", "/b", "/nope", "c"}

\* path.resolve(base, path), on the paths above
Resolve(base, path) ==
    IF path # "c" THEN path
    ELSE CASE base = "/" -> "/c"
           [] base = "/a" -> "/a/c"
           [] base = "/b" -> "/b/c"
           [] OTHER -> "/c/c"

\* the paths fs.existsSync finds: it resolves against node's working directory
Existing == { p \in Paths : Resolve(ProcessCwd, p) \in FileSystem }

Sites == {"script.mjs:1"}

RECURSIVE Flatten(_)
Flatten(ss) == IF ss = <<>> THEN <<>> ELSE Head(ss) \o Flatten(Tail(ss))

----------------------------------------------------------------------------
(* Interpolation values: a raw string or a ProcessOutput *)

Raw(s) == [kind |-> "raw", val |-> s]

Ref(po) == [kind |-> "ProcessOutput", val |-> po]

ProcessOutput(code, stdout, stderr, combined, from) ==
    [exitCode |-> code, stdout |-> stdout, stderr |-> stderr,
     combined |-> combined, from |-> from]

\* s.replace(/\n$/, ''): without the m flag $ matches at the end of input only
StripFinalNewline(s) ==
    IF s # <<>> /\ s[Len(s)] = "\n" THEN SubSeq(s, 1, Len(s) - 1) ELSE s

RECURSIVE StripAllNewlines(_)
StripAllNewlines(s) ==
    IF s # <<>> /\ s[Len(s)] = "\n"
    THEN StripAllNewlines(SubSeq(s, 1, Len(s) - 1)) ELSE s

substituteTrimEnd(arg) ==
    IF arg.kind = "ProcessOutput" THEN StripAllNewlines(arg.val.stdout)
    ELSE arg.val

substitute(arg) ==
    IF arg.kind = "ProcessOutput" THEN StripFinalNewline(arg.val.stdout)
    ELSE arg.val

----------------------------------------------------------------------------
(* Quoting *)

RECURSIVE EscapeSingleQuotes(_)
EscapeSingleQuotes(s) ==
    IF s = <<>> THEN <<>>
    ELSE (IF Head(s) = "'" THEN <<"'", "\\", "'", "'">> ELSE <<Head(s)>>)
         \o EscapeSingleQuotes(Tail(s))

\* (variant) the string is wrapped in quotes and its own quotes are left alone
shqNoEscape(s) == <<"'">> \o s \o <<"'">>

shq(s) == <<"'">> \o EscapeSingleQuotes(s) \o <<"'">>

identity(s) == s

\* the character U+0060, which a TLA+ string cannot hold
Backtick == "BACKTICK"

\* How a POSIX shell splits a command into words.  Quotes group, a backslash
\* takes the next character literally, blanks separate; a control operator
\* (; & newline), an expansion ($, backtick) and an unterminated quote are not
\* carried out but marked, so that a command holding one differs from every
\* plain list of words.
RECURSIVE ShellScan(_, _, _, _, _)
ShellScan(rest, mode, cur, inword, words) ==
    LET flush == IF inword THEN Append(words, cur) ELSE words IN
    IF rest = <<>>
    THEN IF mode = "plain" THEN flush ELSE Append(flush, <<"UNTERMINATED">>)
    ELSE LET c == Head(rest)
             t == Tail(rest)
         IN
         IF mode = "single"
         THEN IF c = "'" THEN ShellScan(t, "plain", cur, TRUE, words)
              ELSE ShellScan(t, "single", Append(cur, c), TRUE, words)
         ELSE IF mode = "double"
         THEN IF c = "\"" THEN ShellScan(t, "plain", cur, TRUE, words)
              ELSE IF c \in {"$", Backtick}
                   THEN ShellScan(t, "double", Append(cur, "EXPANSION"), TRUE, words)
              ELSE IF c = "\\" /\ t # <<>> /\ Head(t) \in {"$", Backtick, "\"", "\\"}
                   THEN ShellScan(Tail(t), "double", Append(cur, Head(t)), TRUE, words)
              ELSE ShellScan(t, "double", Append(cur, c), TRUE, words)
         ELSE IF c = "'" THEN ShellScan(t, "single", cur, TRUE, words)
         ELSE IF c = "\"" THEN ShellScan(t, "double", cur, TRUE, words)
         ELSE IF c = "\\"
              THEN IF t = <<>> THEN ShellScan(t, "plain", cur, TRUE, words)
                   ELSE ShellScan(Tail(t), "plain", Append(cur, Head(t)), TRUE, words)
         ELSE IF c = " " THEN ShellScan(t, "plain", <<>>, FALSE, flush)
         ELSE IF c \in {";", "&", "\n"}
              THEN ShellScan(t, "plain", <<>>, FALSE, Append(flush, <<"OPERATOR">>))
         ELSE IF c \in {"$", Backtick}
              THEN ShellScan(t, "plain", Append(cur, "EXPANSION"), TRUE, words)
         ELSE ShellScan(t, "plain", Append(cur, c), TRUE, words)

ShellWords(cmd) == ShellScan(cmd, "plain", <<>>, FALSE, <<>>)

ApplyQuote(q, s) == IF q = "shq" THEN shq(s) ELSE identity(s)

----------------------------------------------------------------------------
(* Shell resolution at module load *)

whichSync(env, cmd) == IF cmd \in env THEN PathOf(cmd) ELSE NULL

RECURSIVE whichSyncLast(_, _)
whichSyncLast(env, cmds) ==
    IF cmds = <<>> THEN UNDEFINED
    ELSE LET rest == whichSyncLast(env, Tail(cmds)) IN
         IF rest # UNDEFINED THEN rest
         ELSE IF whichSync(env, Head(cmds)) # NULL THEN whichSync(env, Head(cmds))
         ELSE UNDEFINED

RECURSIVE whichSyncFallback(_, _)
whichSyncFallback(env, cmds) ==
    IF cmds = <<>> THEN UNDEFINED
    ELSE LET result == whichSync(env, Head(cmds)) IN
         IF result # NULL THEN result ELSE whichSyncFallback(env, Tail(cmds))

BashFound(env) == whichSync(env, Shells[1]) # NULL

FallbackFound(env) == whichSyncFallback(env, Tail(Shells)) # UNDEFINED

LoadShell(env) ==
    IF BashFound(env) THEN whichSync(env, Shells[1])
    ELSE whichSyncFallback(env, Tail(Shells))

LoadQuoteAnyShell(env) ==
    IF BashFound(env) \/ FallbackFound(env) THEN "shq" ELSE "identity"

LoadQuote(env) == IF BashFound(env) THEN "shq" ELSE "identity"

StrictPrefix == <<"set -euo pipefail;">>

LoadPrefix(env) == IF BashFound(env) THEN StrictPrefix ELSE <<>>

LoadWarnings(env) ==
    IF BashFound(env) THEN <<>>
    ELSE IF FallbackFound(env)
         THEN << <<"Using powershell: no built-in quoting available yet.">> >>
         ELSE << <<"Unknown shell. Falling back to nodejs default. No quoting available.">> >>

----------------------------------------------------------------------------
(* $: building the command *)

BuildStepSamePiece(q, pieces, args, cmd, i) ==
    cmd \o ApplyQuote(q, substitute(args[i + 1])) \o pieces[i + 1]

BuildStep(q, pieces, args, cmd, i) ==
    cmd \o ApplyQuote(q, substitute(args[i + 1])) \o pieces[i + 2]

RECURSIVE BuildLoop(_, _, _, _, _)
BuildLoop(q, pieces, args, cmd, i) ==
    IF i < Len(args)
    THEN BuildLoop(q, pieces, args, BuildStep(q, pieces, args, cmd, i), i + 1)
    ELSE cmd

BuildCmd(q, pieces, args) == BuildLoop(q, pieces, args, pieces[1], 0)

----------------------------------------------------------------------------
(* $: running the command *)

\* (variant) the working directory is not handed to exec
ExecOptionsNoCwd == [windowsHide |-> TRUE, shell |-> shell, cwd |-> UNDEFINED]

ExecOptions == [windowsHide |-> TRUE, shell |-> shell, cwd |-> cwd]

Exec(command, options) ==
    [command |-> command, options |-> options, emitted |-> <<>>,
     exited |-> FALSE, code |-> 0]

NewClosure(pieces, args, cmd, from) ==
    [pieces |-> pieces, args |-> args, cmd |-> cmd, from |-> from,
     stdout |-> <<>>, stderr |-> <<>>, combined |-> <<>>,
     promise |-> "pending", value |-> <<>>]

\* resolve and reject do nothing on a promise that is already settled
Settle(c, state, output) ==
    IF c.promise = "pending"
    THEN [c EXCEPT !.promise = state, !.value = <<output>>]
    ELSE c

\* (variant) the delivered ProcessOutput reads the closure's buffers, not a copy
OnStdoutDataLive(c, data) ==
    [c EXCEPT !.stdout = @ \o data, !.combined = @ \o data,
              !.value = IF @ = <<>> THEN @
                        ELSE << [@[1] EXCEPT !.stdout = @ \o data,
                                             !.combined = @ \o data] >>]

OnStdoutData(c, data) ==
    [c EXCEPT !.stdout = @ \o data, !.combined = @ \o data]

OnStderrDataRejects(c, data) ==
    Settle([c EXCEPT !.stderr = @ \o data, !.combined = @ \o data], "rejected",
           ProcessOutput(1, c.stdout, c.stderr \o data, c.combined \o data, c.from))

OnStderrDataUncombined(c, data) == [c EXCEPT !.stderr = @ \o data]

OnStderrData(c, data) ==
    [c EXCEPT !.stderr = @ \o data, !.combined = @ \o data]

OnExitFalsy(c, code) ==
    Settle(c, IF code \in {0, NullCode} THEN "fulfilled" ELSE "rejected",
           ProcessOutput(code, c.stdout, c.stderr, c.combined, c.from))

\* (variant) only resolve is called; a failing command is never reported
OnExitResolveOnly(c, code) ==
    IF code = 0
    THEN Settle(c, "fulfilled",
                ProcessOutput(code, c.stdout, c.stderr, c.combined, c.from))
    ELSE c

OnExit(c, code) ==
    Settle(c, IF code = 0 THEN "fulfilled" ELSE "rejected",
           ProcessOutput(code, c.stdout, c.stderr, c.combined, c.from))

\* (variant) the chunk is mirrored whatever $.verbose is
MirrorAlways(log, fn, data) == Append(log, [fn |-> fn, text |-> data])

Mirror(log, fn, data) ==
    IF verbose THEN Append(log, [fn |-> fn, text |-> data]) ELSE log

RECURSIVE TotalEmitted(_)
TotalEmitted(cs) ==
    IF cs = <<>> THEN 0 ELSE Len(Head(cs).emitted) + TotalEmitted(Tail(cs))

\* (variant) $.prefix += cmd where $.prefix + cmd is meant
DollarGrowsPrefix(pieces, args, site) ==
    /\ alive
    /\ Len(inv) < MaxInv
    /\ LET cmd == BuildCmd(quote, pieces, args) IN
       /\ prefix' = prefix \o cmd
       /\ child' = Append(child, Exec(prefix \o cmd, ExecOptions))
       /\ inv' = Append(inv, NewClosure(pieces, args, cmd, site))
    /\ UNCHANGED <<found, shell, quote, verbose, cwd, alive, exitStatus,
                   parentOut, parentErr>>

Dollar(pieces, args, site) ==
    /\ alive
    /\ Len(inv) < MaxInv
    /\ LET cmd == BuildCmd(quote, pieces, args) IN
       /\ child' = Append(child, Exec(prefix \o cmd, ExecOptions))
       /\ inv' = Append(inv, NewClosure(pieces, args, cmd, site))
    /\ UNCHANGED <<found, settings, alive, exitStatus, parentOut, parentErr>>

StdoutDataShared(i, data) ==
    /\ alive
    /\ i \in 1..Len(child)
    /\ TotalEmitted(child) < MaxChunks
    /\ child' = [child EXCEPT ![i].emitted = Append(@, [stream |-> "stdout", data |-> data])]
    /\ parentOut' = Mirror(parentOut, "process.stdout.write", data)
    /\ inv' = [k \in DOMAIN inv |-> OnStdoutData(inv[k], data)]
    /\ UNCHANGED <<found, settings, alive, exitStatus, parentErr>>

StdoutData(i, data) ==
    /\ alive
    /\ i \in 1..Len(child)
    /\ TotalEmitted(child) < MaxChunks
    /\ child' = [child EXCEPT ![i].emitted = Append(@, [stream |-> "stdout", data |-> data])]
    /\ parentOut' = Mirror(parentOut, "process.stdout.write", data)
    /\ inv' = [inv EXCEPT ![i] = OnStdoutData(@, data)]
    /\ UNCHANGED <<found, settings, alive, exitStatus, parentErr>>

StderrData(i, data) ==
    /\ alive
    /\ i \in 1..Len(child)
    /\ TotalEmitted(child) < MaxChunks
    /\ child' = [child EXCEPT ![i].emitted = Append(@, [stream |-> "stderr", data |-> data])]
    /\ parentErr' = Mirror(parentErr, "process.stderr.write", data)
    /\ inv' = [inv EXCEPT ![i] = OnStderrData(@, data)]
    /\ UNCHANGED <<found, settings, alive, exitStatus, parentOut>>

ChildExitFatal(i, code) ==
    /\ alive
    /\ i \in 1..Len(child)
    /\ ~child[i].exited
    /\ child' = [child EXCEPT ![i].exited = TRUE, ![i].code = code]
    /\ inv' = [inv EXCEPT ![i] = OnExit(@, code)]
    /\ alive' = (code = 0)
    /\ exitStatus' = (IF code = 0 THEN exitStatus ELSE 1)
    /\ UNCHANGED <<found, settings, parentOut, parentErr>>

\* the child emits 'exit' once, with the code it ended with
ChildExit(i, code) ==
    /\ alive
    /\ i \in 1..Len(child)
    /\ ~child[i].exited
    /\ child' = [child EXCEPT ![i].exited = TRUE, ![i].code = code]
    /\ inv' = [inv EXCEPT ![i] = OnExit(@, code)]
    /\ UNCHANGED <<found, settings, alive, exitStatus, parentOut, parentErr>>

----------------------------------------------------------------------------
(* cd *)

\* (variant) the path is looked up from the directory $.cwd names
existsSyncFromCwd(path) ==
    Resolve(IF cwd = UNDEFINED THEN ProcessCwd ELSE cwd, path) \in FileSystem

existsSync(path) == path \in Existing

CdFails(path) == ~existsSync(path)

CdErrorLines(path) ==
    << [fn |-> "console.error", text |-> <<"cd: ", path, ": No such directory">>],
       [fn |-> "console.error", text |-> <<"  at ", "script.mjs:1">>] >>

CdNoExit(path) ==
    /\ alive
    /\ parentErr' = IF CdFails(path) THEN parentErr \o CdErrorLines(path) ELSE parentErr
    /\ cwd' = path
    /\ UNCHANGED <<found, shell, quote, prefix, verbose, alive, exitStatus,
                   parentOut, inv, child>>

Cd(path) ==
    /\ alive
    /\ IF CdFails(path)
       THEN /\ parentErr' = parentErr \o CdErrorLines(path)
            /\ alive' = FALSE
            /\ exitStatus' = 1
            /\ cwd' = cwd
       ELSE /\ cwd' = path
            /\ UNCHANGED <<parentErr, alive, exitStatus>>
    /\ UNCHANGED <<found, shell, quote, prefix, verbose, parentOut, inv, child>>

SetVerbose(v) ==
    /\ alive
    /\ verbose # v
    /\ verbose' = v
    /\ UNCHANGED <<found, shell, quote, prefix, cwd, alive, exitStatus,
                   parentOut, parentErr, inv, child>>

----------------------------------------------------------------------------
(* The state after the module is loaded, on a host whose PATH holds env *)

InitOn(envs) ==
    /\ found \in envs
    /\ shell = LoadShell(found)
    /\ quote = LoadQuote(found)
    /\ prefix = LoadPrefix(found)
    /\ verbose = TRUE
    /\ cwd = UNDEFINED
    /\ alive = TRUE
    /\ exitStatus = 0
    /\ parentOut = <<>>
    /\ parentErr = [k \in 1..Len(LoadWarnings(found)) |->
                      [fn |-> "console.warn", text |-> LoadWarnings(found)[k]]]
    /\ inv = <<>>
    /\ child = <<>>

----------------------------------------------------------------------------
(* Inputs *)

OutChunks == { <<"o", "\n">> }

ErrChunks == { <<"e">> }

\* the runner's specification: two commands, one of them with a value
Template0 == << <<"x">> >>

Template1 == << <<"e", " ">>, <<>> >>

Template2 == << <<"e", " ">>, <<" ">>, <<";">> >>

RawValues == { <<"a", " ", "b">>, <<"'">>, <<"a", "\n">> }

\* the ProcessOutputs the caller holds: those its settled promises delivered
Held == { inv[i].value[1] : i \in {j \in 1..Len(inv) : inv[j].promise # "pending"} }

Values == { Raw(s) : s \in RawValues } \cup { Ref(po) : po \in Held }

BuildChunks == { <<"o">>, <<"o", "\n">>, <<"\n", "\n">> }

\* every assignment of values to the slots of a template
ArgsFor(pieces, values) == [1..(Len(pieces) - 1) -> values]

----------------------------------------------------------------------------
(* The runner: commands in flight, their events, and cd *)

Init == InitOn({ {"bash"} })

Next ==
    \/ \E site \in Sites : Dollar(Template1, << Raw(<<"a", " ", "b">>) >>, site)
    \/ \E i \in 1..MaxInv, data \in OutChunks : StdoutData(i, data)
    \/ \E i \in 1..MaxInv, data \in ErrChunks : StderrData(i, data)
    \/ \E i \in 1..MaxInv, code \in ExitCodes : ChildExit(i, code)
    \/ \E path \in {"/a", "/nope"} : Cd(path)

Spec == Init /\ [][Next]_vars

----------------------------------------------------------------------------
(* The load: every host, and the commands spawned under what it resolved *)

InitLoad == InitOn(SUBSET Executables)

NextLoad ==
    \/ \E site \in Sites : Dollar(Template0, <<>>, site)
    \/ \E site \in Sites, s \in RawValues : Dollar(Template1, << Raw(s) >>, site)
    \/ \E i \in 1..MaxInv, code \in {0, 1} : ChildExit(i, code)

SpecLoad == InitLoad /\ [][NextLoad]_vars

----------------------------------------------------------------------------
(* The builder: every template over raw values and the outputs of earlier  *)
(* commands                                                                *)

InitBuild == InitOn({ {"bash"}, {} })

\* the script runs one command, then builds a second one from raw values and
\* from what the first delivered
NextBuild ==
    \/ \E site \in Sites : inv = <<>> /\ Dollar(Template0, <<>>, site)
    \/ \E site \in Sites, pieces \in {Template0, Template1, Template2} :
          \E args \in ArgsFor(pieces, Values) :
             Len(inv) = 1 /\ Dollar(pieces, args, site)
    \/ \E data \in BuildChunks : StdoutData(1, data)
    \/ \E data \in ErrChunks : StderrData(1, data)
    \/ \E code \in {0, 1} : ChildExit(1, code)

SpecBuild == InitBuild /\ [][NextBuild]_vars

----------------------------------------------------------------------------
(* The script at large: a command, one built from what an earlier one      *)
(* delivered, their events, cd and changes of $.verbose                    *)

InitIO == InitOn({ {"bash"} })

\* the first command is the one whose output arrives; later commands are
\* built from what was delivered
NextIO ==
    \/ \E site \in Sites : Dollar(Template0, <<>>, site)
    \/ \E site \in Sites, po \in Held : Dollar(Template1, << Ref(po) >>, site)
    \/ \E data \in OutChunks : StdoutData(1, data)
    \/ \E data \in ErrChunks : StderrData(1, data)
    \/ \E i \in 1..MaxInv, code \in {0, 1} : ChildExit(i, code)
    \/ \E path \in {"/a", "/nope"} : Cd(path)
    \/ \E v \in BOOLEAN : SetVerbose(v)

SpecIO == InitIO /\ [][NextIO]_vars

----------------------------------------------------------------------------
(* Verbose mode: commands in flight while $.verbose is switched on and off *)

InitVerbose == InitOn({ {"bash"} })

NextVerbose ==
    \/ \E site \in Sites : Dollar(Template0, <<>>, site)
    \/ \E i \in 1..MaxInv, data \in OutChunks : StdoutData(i, data)
    \/ \E i \in 1..MaxInv, data \in ErrChunks : StderrData(i, data)
    \/ \E i \in 1..MaxInv : ChildExit(i, 0)
    \/ \E v \in BOOLEAN : SetVerbose(v)

SpecVerbose == InitVerbose /\ [][NextVerbose]_vars

----------------------------------------------------------------------------
(* Directory changes: cd to every path, between commands                   *)

InitCd == InitOn({ {"bash"} })

NextCd ==
    \/ \E site \in Sites : Dollar(Template0, <<>>, site)
    \/ \E i \in 1..MaxInv, code \in {0, 1} : ChildExit(i, code)
    \/ \E path \in Paths : Cd(path)

SpecCd == InitCd /\ [][NextCd]_vars

----------------------------------------------------------------------------
(* Progress: every child that was spawned exits, and node delivers the     *)
(* 'exit' event of a child for as long as the process runs                 *)

InitLive == InitOn({ {"bash"} })

ExitOf(i) == \E code \in {0, 1} : ChildExit(i, code)

NextLive ==
    \/ \E site \in Sites : Dollar(Template0, <<>>, site)
    \/ \E i \in 1..MaxInv, data \in OutChunks : StdoutData(i, data)
    \/ \E i \in 1..MaxInv : ExitOf(i)
    \/ \E path \in {"/a", "/nope"} : Cd(path)
    \/ \E v \in {FALSE} : SetVerbose(v)

SpecLive ==
    /\ InitLive
    /\ [][NextLive]_vars
    /\ \A i \in 1..MaxInv : WF_vars(ExitOf(i))

----------------------------------------------------------------------------
(* Quoting: one command, its value any string over the shell's             *)
(* metacharacters                                                          *)

QuoteChars == {"a", " ", "'", "\"", "$", ";", "&", Backtick}

Strings(n) == UNION { [1..k -> QuoteChars] : k \in 0..n }

InitQuote == InitOn({ {"bash"} })

NextQuote ==
    \/ \E site \in Sites, s \in Strings(MaxStr) :
          inv = <<>> /\ Dollar(Template1, << Raw(s) >>, site)
    \/ \E code \in {0, 1} : ChildExit(1, code)

SpecQuote == InitQuote /\ [][NextQuote]_vars

----------------------------------------------------------------------------
(* Helpers of the properties *)

Invocations == 1..Len(inv)

Pending(i) == inv[i].promise = "pending"

Delivered(i) == inv[i].value[1]

ChunksOf(i, streams) ==
    LET e == child[i].emitted
        keep == SelectSeq(e, LAMBDA x : x.stream \in streams)
    IN Flatten([k \in 1..Len(keep) |-> keep[k].data])

RECURSIVE TrailingNewlines(_)
TrailingNewlines(s) ==
    IF s # <<>> /\ s[Len(s)] = "\n"
    THEN 1 + TrailingNewlines(SubSeq(s, 1, Len(s) - 1)) ELSE 0

\* segments[0] + quote(v0) + segments[1] + ... + segments[n], laid out flat
Interleaving(q, pieces, values) ==
    Flatten([k \in 1..(2 * Len(values) + 1) |->
               IF k % 2 = 1 THEN pieces[(k + 1) \div 2]
               ELSE ApplyQuote(q, values[k \div 2])])

----------------------------------------------------------------------------
(* C1: the promise of an invocation is fulfilled exactly when its child's  *)
(* exit event reported code 0 and rejected exactly when it reported any    *)
(* other code, and the delivered ProcessOutput carries the reported code.  *)
C1_ExitCodeDecidesOutcome ==
    \A i \in Invocations :
        /\ (inv[i].promise = "fulfilled") <=> (child[i].exited /\ child[i].code = 0)
        /\ (inv[i].promise = "rejected") <=> (child[i].exited /\ child[i].code # 0)
        /\ child[i].exited => Delivered(i).exitCode = child[i].code

C1_Witness ==
    \E i, j \in Invocations :
        /\ inv[i].promise = "fulfilled" /\ Delivered(i).exitCode = 0
        /\ inv[j].promise = "rejected" /\ Delivered(j).exitCode = NullCode

(* C2: the command built by $ is the interleaving segments[0] + quote(v0)  *)
(* + segments[1] + ... + segments[n] of its literal segments, unquoted,    *)
(* with its substituted values, each quoted once by the active function;   *)
(* the command handed to exec is the prefix followed by it.                *)
C2_CommandIsInterleaving ==
    \A i \in Invocations :
        LET values == [k \in 1..Len(inv[i].args) |-> substitute(inv[i].args[k])] IN
        /\ Len(inv[i].pieces) = Len(inv[i].args) + 1
        /\ inv[i].cmd = Interleaving(quote, inv[i].pieces, values)
        /\ child[i].command = prefix \o inv[i].cmd

C2_Witness ==
    \E i \in Invocations :
        /\ quote = "shq"
        /\ inv[i].pieces = Template2
        /\ inv[i].args[1].kind = "ProcessOutput"
        /\ inv[i].args[2] = Raw(<<"'">>)
        /\ inv[i].cmd = <<"e", " ">> \o shq(<<"o">>) \o <<" ">> \o shq(<<"'">>) \o <<";">>

(* C3: a ProcessOutput used as a value contributes its stdout without its  *)
(* final newline when it has one and unchanged otherwise (k >= 1 trailing  *)
(* newlines leave k - 1), whatever its stderr and combined hold; a raw     *)
(* value is substituted unchanged.                                         *)
C3_SubstituteStripsOneNewline ==
    \A i \in Invocations : \A k \in 1..Len(inv[i].args) :
        LET arg == inv[i].args[k]
            sub == substitute(arg)
            one == << <<"e", " ">>, <<>> >>
        IN
        /\ arg.kind = "raw" => sub = arg.val
        /\ arg.kind = "ProcessOutput" =>
              LET out == arg.val.stdout
                  n == TrailingNewlines(out)
              IN /\ Len(sub) = Len(out) - (IF n >= 1 THEN 1 ELSE 0)
                 /\ sub = SubSeq(out, 1, Len(sub))
                 /\ TrailingNewlines(sub) = (IF n >= 1 THEN n - 1 ELSE 0)
        /\ (inv[i].pieces = one /\ quote = "identity") =>
              child[i].command = <<"e", " ">> \o sub

C3_Witness ==
    \E i \in Invocations :
        /\ quote = "identity"
        /\ inv[i].pieces = Template1
        /\ inv[i].args[1].kind = "ProcessOutput"
        /\ inv[i].args[1].val.stdout = <<"\n", "\n">>
        /\ inv[i].args[1].val.stderr = <<"e">>
        /\ child[i].command = <<"e", " ", "\n">>

(* C4: at every moment the combined buffer of an invocation is the         *)
(* concatenation, in arrival order, of every chunk its child's stdout and  *)
(* stderr delivered so far, its stdout buffer that of the stdout chunks    *)
(* and its stderr buffer that of the stderr chunks.                        *)
C4_BuffersFollowArrival ==
    \A i \in Invocations :
        /\ inv[i].combined = ChunksOf(i, {"stdout", "stderr"})
        /\ inv[i].stdout = ChunksOf(i, {"stdout"})
        /\ inv[i].stderr = ChunksOf(i, {"stderr"})
        /\ Len(inv[i].combined) = Len(inv[i].stdout) + Len(inv[i].stderr)

C4_Witness ==
    \E i \in Invocations :
        /\ inv[i].combined = <<"e", "o", "\n">>
        /\ inv[i].stdout = <<"o", "\n">>
        /\ inv[i].stderr = <<"e">>

(* C5: cd to a path that does not exist ends the process with a non-zero   *)
(* status and leaves the working-directory setting as it was, and once the *)
(* process has ended no child is spawned and nothing else happens in it.   *)
C5_FailedCdIsFatal ==
    [][ /\ \A p \in Paths \ Existing :
              Cd(p) => (~alive' /\ exitStatus' # 0 /\ cwd' = cwd)
        /\ ~alive => (~alive' /\ child' = child /\ inv' = inv /\ cwd' = cwd)
        /\ cwd' \in Existing \cup {UNDEFINED} ]_vars

C5_Witness ==
    /\ ~alive
    /\ exitStatus = 1
    /\ cwd = "/a"
    /\ Len(child) = 1
    /\ ~child[1].exited

(* C6: the resolved shell is the first of bash, pwsh, powershell that the  *)
(* executable search finds, a later one only when every earlier one is     *)
(* missing, and it is unset when none is found; every child is spawned     *)
(* with that shell option.                                                 *)
C6_FirstFoundShell ==
    /\ "bash" \in found => shell = "/usr/bin/bash"
    /\ ("bash" \notin found /\ "pwsh" \in found) => shell = "/usr/bin/pwsh"
    /\ ("bash" \notin found /\ "pwsh" \notin found /\ "powershell" \in found)
          => shell = "/usr/bin/powershell"
    /\ found = {} => shell = UNDEFINED
    /\ \A i \in Invocations : child[i].options.shell = shell

C6_Witness ==
    /\ found = {"pwsh", "powershell"}
    /\ shell = "/usr/bin/pwsh"
    /\ Len(child) = 1

(* C7: quoting is shq and every spawned command starts with the prefix     *)
(* 'set -euo pipefail;' exactly when bash was found; otherwise quoting is  *)
(* the identity, the prefix is empty and the load printed one warning, so  *)
(* a value holding a space reaches the command unquoted.                   *)
C7_ShellDecidesQuoting ==
    LET warned == Len(SelectSeq(parentErr, LAMBDA x : x.fn = "console.warn")) IN
    /\ "bash" \in found =>
          /\ quote = "shq" /\ prefix = <<"set -euo pipefail;">> /\ warned = 0
    /\ "bash" \notin found =>
          /\ quote = "identity" /\ prefix = <<>> /\ warned = 1
    /\ \A i \in Invocations :
          /\ child[i].command = prefix \o inv[i].cmd
          /\ (child[i].command[1] = "set -euo pipefail;") <=> ("bash" \in found)
          /\ inv[i].args = << Raw(<<"a", " ", "b">>) >> =>
                /\ "bash" \in found =>
                      inv[i].cmd = <<"e", " ">> \o shq(<<"a", " ", "b">>)
                /\ (inv[i].cmd = <<"e", " ", "a", " ", "b">>) <=> ("bash" \notin found)

C7_Witness ==
    /\ found = {"powershell"}
    /\ \E i \in Invocations : child[i].command = <<"e", " ", "a", " ", "b">>

(* C8: an invocation is spawned once, its promise leaves pending only in   *)
(* the step in which its own child exits and does leave it then, and a     *)
(* settled promise keeps its state and its value for good.                 *)
C8_InvocationStateMachine ==
    [][ /\ Len(child) = Len(inv) /\ Len(child') = Len(inv')
        /\ Len(inv') >= Len(inv)
        /\ \A i \in Invocations :
              LET exits == ~child[i].exited /\ child'[i].exited IN
              /\ child'[i].command = child[i].command
              /\ child'[i].options = child[i].options
              /\ child[i].exited => child'[i].exited /\ child'[i].code = child[i].code
              /\ Pending(i) <=> ~child[i].exited
              /\ (Pending(i) /\ inv'[i].promise # "pending") <=> exits
              /\ ~Pending(i) =>
                    /\ inv'[i].promise = inv[i].promise
                    /\ inv'[i].value = inv[i].value ]_vars

C8_Witness ==
    \E i, j \in Invocations :
        /\ inv[i].promise = "rejected"
        /\ inv[i].combined # Delivered(i).combined
        /\ inv[j].promise = "pending"
        /\ inv[j].stderr # <<>>

(* C9: a child exiting with a non-zero code rejects the promise of its own *)
(* invocation and nothing else: the process goes on, the other invocations *)
(* and the process-wide settings stay as they are; the process ends only   *)
(* in cd to a path that does not exist.                                    *)
C9_FailureIsLocal ==
    [][ /\ \A i \in Invocations :
              (~child[i].exited /\ child'[i].exited /\ child'[i].code # 0) =>
                 /\ inv'[i].promise = "rejected"
                 /\ alive' /\ exitStatus' = exitStatus
                 /\ settings' = settings
                 /\ \A j \in Invocations \ {i} :
                       inv'[j] = inv[j] /\ child'[j] = child[j]
        /\ (alive /\ ~alive') => \E p \in Paths \ Existing : Cd(p) ]_vars

C9_Witness ==
    /\ alive
    /\ Len(inv) = 2
    /\ inv[1].promise = "rejected"
    /\ inv[2].promise = "fulfilled"
    /\ cwd = "/a"

(* C10: with several invocations in flight, a step changes the buffers and *)
(* the promise of an invocation only if it is an event of that             *)
(* invocation's own child, and then of no other invocation; the outcome of *)
(* an invocation is the one its own child's exit code gives.               *)
C10_InvocationsIndependent ==
    [][ \A i \in Invocations :
           /\ child'[i] = child[i] => inv'[i] = inv[i]
           /\ child'[i] # child[i] =>
                 \A j \in Invocations \ {i} : inv'[j] = inv[j]
           /\ inv'[i].promise # "pending" =>
                 /\ (inv'[i].promise = "fulfilled") <=> (child'[i].code = 0)
                 /\ inv'[i].value[1].exitCode = child'[i].code
                 /\ Pending(i) =>
                       /\ inv'[i].value[1].stdout = ChunksOf(i, {"stdout"})
                       /\ inv'[i].value[1].stderr = ChunksOf(i, {"stderr"}) ]_vars

C10_Witness ==
    /\ Len(inv) = 2
    /\ inv[1].promise = "fulfilled" /\ inv[1].combined = <<"e">>
    /\ inv[2].promise = "rejected" /\ inv[2].combined = <<"o", "\n">>
    /\ Delivered(1).combined = <<>>

(* C11: a ProcessOutput never changes once it is built: the one a settled  *)
(* promise delivered, and the one a later command took as a value, keep    *)
(* their exit code, stdout, stderr, combined and origin through later      *)
(* chunks of the same child, other invocations, cd and changes of verbose. *)
C11_ProcessOutputImmutable ==
    [][ \A i \in Invocations :
           /\ ~Pending(i) => inv'[i].value = inv[i].value
           /\ inv'[i].args = inv[i].args
           /\ \A k \in 1..Len(inv[i].args) :
                 inv[i].args[k].kind = "ProcessOutput" =>
                    \E j \in Invocations : /\ ~Pending(j)
                                           /\ inv'[j].value[1] = inv[i].args[k].val ]_vars

C11_Witness ==
    /\ Len(inv) = 2
    /\ ~Pending(1)
    /\ inv[1].stdout = <<"o", "\n", "o", "\n">>
    /\ Delivered(1).stdout = <<"o", "\n">>
    /\ inv[2].args = << Ref(Delivered(1)) >>
    /\ cwd = "/a"
    /\ ~verbose

(* C12: a child is spawned with the working directory $.cwd holds when $   *)
(* is called, and with none when $.cwd is unset; a later cd changes        *)
(* neither the options nor the command of a child already spawned.         *)
C12_CwdTakenAtCall ==
    [][ /\ \A i \in Invocations : child'[i].options = child[i].options
        /\ Len(child') > Len(child) =>
              /\ Len(child') = Len(child) + 1
              /\ child'[Len(child')].options.cwd = cwd
              /\ cwd' = cwd ]_vars

C12_Witness ==
    /\ Len(child) = 2
    /\ child[1].options.cwd = UNDEFINED
    /\ child[2].options.cwd = "/a"
    /\ ~child[1].exited /\ ~child[2].exited
    /\ cwd = "/b"

(* C18: $.cwd is unset until the first cd, and a cd to a path that exists  *)
(* (as given, seen from node's own working directory) sets it to exactly   *)
(* that path, whatever it was before; nothing else changes it.             *)
C18_CwdIsLastCdArgument ==
    /\ cwd = UNDEFINED
    /\ [][ /\ \A p \in Existing : Cd(p) => (cwd' = p /\ alive')
           /\ cwd' # cwd => \E p \in Existing : Cd(p) /\ cwd' = p ]_vars

C18_Witness ==
    /\ cwd = "c"
    /\ Len(child) = 1
    /\ child[1].options.cwd = "/b"
    /\ alive

(* C13: a chunk is written to the parent's stream of the same name, and to *)
(* no other, at the moment it arrives exactly when $.verbose is set at     *)
(* that moment; the stdout, stderr and combined buffers take the chunk     *)
(* either way; nothing else writes a chunk to the parent's streams.        *)
C13_MirrorIffVerbose ==
    [][ /\ \A i \in Invocations :
              LET n == Len(child[i].emitted) IN
              Len(child'[i].emitted) = n + 1 =>
                 LET ev == child'[i].emitted[n + 1]
                     out == ev.stream = "stdout"
                     line == [fn |-> IF out THEN "process.stdout.write"
                                     ELSE "process.stderr.write",
                              text |-> ev.data]
                     same == IF out THEN parentOut ELSE parentErr
                     same2 == IF out THEN parentOut' ELSE parentErr'
                 IN /\ verbose => same2 = Append(same, line)
                    /\ ~verbose => same2 = same
                    /\ out => parentErr' = parentErr
                    /\ ~out => parentOut' = parentOut
                    /\ inv'[i].combined = inv[i].combined \o ev.data
                    /\ inv'[i].stdout = inv[i].stdout \o (IF out THEN ev.data ELSE <<>>)
                    /\ inv'[i].stderr = inv[i].stderr \o (IF out THEN <<>> ELSE ev.data)
        /\ (\A i \in Invocations : child'[i].emitted = child[i].emitted) =>
              (parentOut' = parentOut /\ parentErr' = parentErr) ]_vars

C13_Witness ==
    /\ verbose
    /\ Len(inv) = 1
    /\ inv[1].combined = <<"o", "\n", "e">>
    /\ Len(parentOut) = 1
    /\ parentErr = <<>>

(* C17: $.shell, $.quote and $.prefix never change after the load; a call  *)
(* of $, a chunk and a settling change no process-wide setting; $.cwd is   *)
(* changed only by a cd that succeeds, which changes nothing else; a       *)
(* change of $.verbose changes nothing else.                               *)
C17_SettingsFrame ==
    [][ /\ shell' = shell /\ quote' = quote /\ prefix' = prefix
        /\ (inv' # inv \/ child' # child) => settings' = settings
        /\ cwd' # cwd =>
              /\ \E p \in Existing : Cd(p)
              /\ UNCHANGED <<shell, quote, prefix, verbose, alive, exitStatus,
                             parentOut, parentErr, inv, child>>
        /\ verbose' # verbose => UNCHANGED <<shell, quote, prefix, cwd, inv, child>> ]_vars

C17_Witness ==
    /\ Len(inv) = 2
    /\ inv[1].promise = "rejected"
    /\ inv[2].args = << Ref(Delivered(1)) >>
    /\ inv[1].combined # <<>>
    /\ cwd = "/a"
    /\ ~verbose
    /\ shell = "/usr/bin/bash" /\ quote = "shq" /\ prefix = <<"set -euo pipefail;">>

(* C15: the ProcessOutput a settled promise delivered holds every chunk    *)
(* the child's streams delivered, those arriving after 'exit' included.    *)
(* The promise is settled in the 'exit' handler from the buffers as they   *)
(* are then, so a chunk arriving later is missing from it.                 *)
C15_ResultHoldsEveryChunk ==
    \A i \in Invocations :
        ~Pending(i) =>
            /\ Delivered(i).stdout = ChunksOf(i, {"stdout"})
            /\ Delivered(i).stderr = ChunksOf(i, {"stderr"})
            /\ Delivered(i).combined = ChunksOf(i, {"stdout", "stderr"})

(* C16: while the process runs, every invocation whose child exits gets    *)
(* its promise settled with a ProcessOutput, whatever other invocations    *)
(* are in flight and whatever cd and $.verbose changes happen meanwhile.   *)
C16_ExitSettlesEventually ==
    \A i \in 1..MaxInv :
        [](Len(inv) >= i =>
             <>(\/ ~alive
                \/ /\ Len(inv) >= i
                   /\ inv[i].promise # "pending"
                   /\ Len(inv[i].value) = 1))

C16_Witness ==
    /\ alive
    /\ Len(inv) = 2
    /\ inv[1].promise = "rejected"
    /\ inv[2].promise = "pending"
    /\ cwd = "/a"
    /\ ~verbose

(* C14: with bash resolved, a quoted string is parsed by the shell as one  *)
(* word, equal to the string: the command built from "e " and the value s  *)
(* splits into the two words e and s, for every s over blanks, quotes, $,  *)
(* ;, & and backticks, the empty string included.                          *)
C14_QuoteRoundTrip ==
    \A i \in Invocations :
        LET s == inv[i].args[1].val IN
        /\ quote = "shq"
        /\ ShellWords(ApplyQuote(quote, s)) = << s >>
        /\ ShellWords(inv[i].cmd) = << <<"e">>, s >>

C14_Witness ==
    \E i \in Invocations :
        /\ inv[i].args[1].val = <<"'", ";">>
        /\ ShellWords(inv[i].cmd) = << <<"e">>, <<"'", ";">> >>
        /\ ShellWords(<<"e", " ", "'", ";">>) # << <<"e">>, <<"'", ";">> >>

====
